---------------------------- MODULE Spec2Model ----------------------------
(***************************************************************************)
(* A model of migraine (src/migraine.py): the version-reconciliation       *)
(* function _calculate_migration_strategy and the transactional run of     *)
(* migrate against the migration ledger.                                   *)
(***************************************************************************)
EXTENDS Integers, Sequences, FiniteSets, TLC

(***************************************************************************)
(* Bounds of the model.                                                    *)
(***************************************************************************)
\* longest list of available versions handed to _calculate_migration_strategy
MaxAvail == 3

\* number of runs of migrate one behaviour of Spec starts
MaxRuns == 3

\* number of runs of migrate one behaviour of ConcSpec starts
ConcRuns == 2

\* wall-clock readings datetime.now() can return: 1..MaxTime
MaxTime == 3

(***************************************************************************)
(* semver.Version values.  A version is major.minor.patch with an optional *)
(* prerelease (a sequence of dot-separated identifiers, <<>> when absent)  *)
(* and an optional build tag ("" when absent).  A prerelease identifier is *)
(* <<"int", n>> for a numeric one and <<"str", k>> for an alphanumeric     *)
(* one, k being its rank in string order ("alpha" = 1, "rc" = 2).          *)
(***************************************************************************)
Ver(ma, mi, pa, pre, bld) ==
    [major |-> ma, minor |-> mi, patch |-> pa, prerelease |-> pre, build |-> bld]

V000 == Ver(0, 0, 0, <<>>, "")
V001 == Ver(0, 0, 1, <<>>, "")
V002rc == Ver(0, 0, 2, << <<"str", 2>> >>, "")
V002 == Ver(0, 0, 2, <<>>, "")
V002b == Ver(0, 0, 2, <<>>, "b")
V010 == Ver(0, 1, 0, <<>>, "")
V100 == Ver(1, 0, 0, <<>>, "")

\* the versions the inputs are drawn from
Versions == {V000, V001, V002rc, V002, V002b, V010, V100}

\* _INITIAL_DATABASE_VERSION = Version.parse("0.0.0")
_INITIAL_DATABASE_VERSION == V000

\* a faulty variant of _cmp: the difference of the two numbers
_cmpDifference(a, b) == a - b

\* semver's _cmp(a, b) = (a > b) - (a < b)
_cmp(a, b) == IF a < b THEN -1 ELSE IF a > b THEN 1 ELSE 0

\* comparison of the (major, minor, patch) tuples, as Python compares tuples
CoreCmp(a, b) ==
    IF a.major # b.major THEN _cmp(a.major, b.major)
    ELSE IF a.minor # b.minor THEN _cmp(a.minor, b.minor)
    ELSE _cmp(a.patch, b.patch)

\* semver's cmp_prerelease_tag: numeric identifiers order below alphanumeric
cmp_prerelease_tag(a, b) ==
    IF a[1] = "int" /\ b[1] = "int" THEN _cmp(a[2], b[2])
    ELSE IF a[1] = "int" THEN -1
    ELSE IF b[1] = "int" THEN 1
    ELSE _cmp(a[2], b[2])

\* semver's _nat_cmp: the first differing identifier decides, then the length
RECURSIVE NatCmpFrom(_, _, _)
NatCmpFrom(a, b, i) ==
    IF i > Len(a) \/ i > Len(b) THEN _cmp(Len(a), Len(b))
    ELSE IF cmp_prerelease_tag(a[i], b[i]) # 0 THEN cmp_prerelease_tag(a[i], b[i])
    ELSE NatCmpFrom(a, b, i + 1)

_nat_cmp(a, b) == NatCmpFrom(a, b, 1)

\* Version.compare: core numbers, then prerelease; the build tag is ignored
compare(a, b) ==
    IF CoreCmp(a, b) # 0 THEN CoreCmp(a, b)
    ELSE IF _nat_cmp(a.prerelease, b.prerelease) = 0 THEN 0
    ELSE IF a.prerelease = <<>> THEN 1
    ELSE IF b.prerelease = <<>> THEN -1
    ELSE _nat_cmp(a.prerelease, b.prerelease)

\* Version.__eq__, used by the lookup `_fst(x) == version`
VersionEq(a, b) == compare(a, b) = 0

(***************************************************************************)
(* sorted(selected, key=cmp_to_key(compare), reverse=...): a stable sort;  *)
(* with reverse=True the order is descending and equal elements keep their *)
(* original relative order.                                                *)
(***************************************************************************)
\* position at which x is inserted into the already sorted list s
InsertAt(s, x, reverse) ==
    LET after(e) == IF reverse THEN compare(e, x) < 0 ELSE compare(e, x) > 0
        hits == {i \in 1..Len(s) : after(s[i])}
    IN  IF hits = {} THEN Len(s) + 1
        ELSE CHOOSE i \in hits : \A j \in hits : i <= j

Insert(s, x, reverse) ==
    LET p == InsertAt(s, x, reverse)
    IN  SubSeq(s, 1, p - 1) \o <<x>> \o SubSeq(s, p, Len(s))

RECURSIVE SortFrom(_, _, _, _)
SortFrom(s, i, acc, reverse) ==
    IF i > Len(s) THEN acc
    ELSE SortFrom(s, i + 1, Insert(acc, s[i], reverse), reverse)

\* a faulty variant of sorted: the reverse flag is ignored
sortedAscending(s, reverse) == SortFrom(s, 1, <<>>, FALSE)

sorted(s, reverse) == SortFrom(s, 1, <<>>, reverse)

(***************************************************************************)
(* _calculate_migration_strategy                                           *)
(***************************************************************************)
\* the return value None
NoStrategy == [direction |-> "None", versions |-> <<>>]

\* a faulty variant of VersionComparison: versions that differ in the build
\* tag alone do not compare equal
VersionComparisonBuildAware(current, target) ==
    IF compare(current, target) = 0 /\ current.build # target.build
    THEN -1 ELSE compare(current, target)

\* line 206: version_comparison = current_version.compare(target_version)
VersionComparison(current, target) == compare(current, target)

\* a faulty variant of ForwardAboveCurrent: the current version is kept
ForwardFromCurrent(current, x) == compare(current, x) # 1

\* first filter of the FORWARD branch: current.compare(x) == -1
ForwardAboveCurrent(current, x) == compare(current, x) = -1

\* a faulty variant of ForwardUpToTarget: the target itself is left out
ForwardBelowTarget(target, x) == compare(target, x) = 1

\* second filter of the FORWARD branch: target.compare(x) == 1 or == 0
ForwardUpToTarget(target, x) == compare(target, x) = 1 \/ compare(target, x) = 0

\* a faulty variant of BackwardUpToCurrent: the current version is left out
BackwardBelowCurrent(current, x) == compare(current, x) = 1

\* first filter of the BACKWARD branch: current.compare(x) == 1 or == 0
BackwardUpToCurrent(current, x) == compare(current, x) = 1 \/ compare(current, x) = 0

\* a faulty variant of BackwardAboveTarget: the target itself is kept
BackwardFromTarget(target, x) == compare(target, x) # 1

\* second filter of the BACKWARD branch: target.compare(x) == -1
BackwardAboveTarget(target, x) == compare(target, x) = -1

_calculate_migration_strategy(current, target, available) ==
    LET version_comparison == VersionComparison(current, target)
    IN  IF version_comparison = 0 THEN NoStrategy
        ELSE IF version_comparison = -1 THEN
            [direction |-> "FORWARD",
             versions |-> sorted(
                 SelectSeq(SelectSeq(available,
                                     LAMBDA x : ForwardAboveCurrent(current, x)),
                           LAMBDA x : ForwardUpToTarget(target, x)),
                 FALSE)]
        ELSE IF version_comparison = 1 THEN
            [direction |-> "BACKWARD",
             versions |-> sorted(
                 SelectSeq(SelectSeq(available,
                                     LAMBDA x : BackwardUpToCurrent(current, x)),
                           LAMBDA x : BackwardAboveTarget(target, x)),
                 TRUE)]
        ELSE [direction |-> "RuntimeError", versions |-> <<>>]

(***************************************************************************)
(* Helpers of migrate.                                                     *)
(***************************************************************************)
\* all lists over S of length at most n
SeqsUpTo(S, n) == UNION {[1..k -> S] : k \in 0..n}

\* _find(lambda x: _fst(x) == version, iterable) = next(filter(...)): the
\* first item whose version compares equal, or StopIteration when no item
\* matches
_find(version, iterable) ==
    LET hits == {i \in 1..Len(iterable) : VersionEq(iterable[i].version, version)}
    IN  IF hits = {}
        THEN [found |-> FALSE, error |-> "StopIteration", item |-> <<>>]
        ELSE [found |-> TRUE, error |-> "",
              item |-> <<iterable[CHOOSE i \in hits : \A j \in hits : i <= j]>>]

\* a file of the migrations directory whose stem is the version v
File(v) == [stem |-> v, valid |-> TRUE]

\* a file of the migrations directory whose stem is no semantic version
BadFile == [stem |-> V000, valid |-> FALSE]

\* _to_versioned: (Version.parse(file.stem), file)
_to_versioned(file) == [version |-> file.stem, file |-> file]

\* _list_migration_script_files: every *.py file of the directory as a
\* versioned path, ProjectInspectionError when a stem is no version
_list_migration_script_files(directory) ==
    IF \E i \in 1..Len(directory) : ~directory[i].valid
    THEN [ok |-> FALSE, error |-> "ProjectInspectionError", files |-> <<>>]
    ELSE [ok |-> TRUE, error |-> "",
          files |-> [i \in 1..Len(directory) |-> _to_versioned(directory[i])]]

\* map(_fst, migration_script_files)
FstOfEach(script_files) == [i \in 1..Len(script_files) |-> script_files[i].version]

\* what pyproject.toml can hold: nothing readable, a malformed version
\* string, or a version
Targets == {V000, V001, V002, V002b, V010, V100}

ProjectStates ==
    {[kind |-> "missing", version |-> V000], [kind |-> "malformed", version |-> V000]}
        \cup {[kind |-> "version", version |-> v] : v \in Targets}

\* lines 301-304: the project version, or the error raised on the way
ReadProjectVersion(project) ==
    IF project.kind = "missing"
    THEN [ok |-> FALSE, error |-> "ProjectInspectionError", version |-> V000]
    ELSE IF project.kind = "malformed"
    THEN [ok |-> FALSE, error |-> "ValueError", version |-> V000]
    ELSE [ok |-> TRUE, error |-> "", version |-> project.version]

\* the contents of the migrations directory a behaviour starts with, in
\* the order glob yields them
Directories ==
    { <<>>,
      <<File(V002), File(V001)>>,
      <<File(V100), File(V001), File(V002rc), File(V010), File(V002)>>,
      <<File(V002), File(V002b), File(V001)>>,
      <<File(V001), BadFile>> }

\* _Migration.serialize_version: str(version), the text stored in the ledger
serialize_version(v) == <<v.major, v.minor, v.patch, v.prerelease, v.build>>

\* _Migration.validate_version: Version.parse of the stored text
validate_version(text) == Ver(text[1], text[2], text[3], text[4], text[5])

\* _Migration.of(version).dict(): the document insert_one stores
MigrationDocument(v, now, id) ==
    [version |-> serialize_version(v), application_datetime |-> now, by |-> id]

\* _find_last_migration: find().sort("application_datetime", -1).limit(1)
\* over the documents the transaction sees; the empty set stands for None
\* and documents with equal greatest datetime may come in any order
_find_last_migration(documents) ==
    {documents[i] : i \in
        {i \in 1..Len(documents) :
            \A j \in 1..Len(documents) :
                documents[j].application_datetime <= documents[i].application_datetime}}

\* lines 316-319: the database version read from the last migration
CurrentDatabaseVersion(last) ==
    IF last = {} THEN _INITIAL_DATABASE_VERSION
    ELSE validate_version((CHOOSE d \in last : TRUE).version)

\* a faulty variant of RecordedVersion: the version of the last script run
LastAppliedVersion(r) ==
    IF r.executed = <<>> THEN r.current ELSE r.executed[Len(r.executed)]

\* the version _insert_migration_of records (line 363): the project version
RecordedVersion(r) == r.target

\* a faulty variant of TxOnExit: no abort when the block raised
TxLeftOpenOnError(raised) == IF raised THEN "open" ELSE "committed"

\* session.start_transaction().__aexit__: abort when the block raised,
\* commit when it ended normally
TxOnExit(raised) == IF raised THEN "aborted" ELSE "committed"

\* a faulty variant of KeptOnAbort: the writes survive the abort
KeptOnAbortAll(committed, written) == committed \o written

\* what the store keeps of a transaction's writes when it aborts: nothing
KeptOnAbort(committed, written) == committed

\* a faulty variant of KeptOnCommit: what is written replaces what was there
KeptOnCommitReplacing(committed, written) ==
    IF written = <<>> THEN committed ELSE written

\* what the store keeps of a transaction's writes when it commits
KeptOnCommit(committed, written) == committed \o written

(***************************************************************************)
(* State.                                                                  *)
(***************************************************************************)
VARIABLES
    \* one call of _calculate_migration_strategy
    current_version,     \* argument current_version
    target_version,      \* argument target_version
    available_versions,  \* argument available_versions, as a list
    called,              \* whether the function has returned
    result,              \* its return value
    \* one call of _find
    wanted,              \* the version the predicate looks for
    candidates,          \* the iterable: a list of versioned paths
    looked,              \* whether _find has returned or raised
    found,               \* what it returned or raised
    \* runs of migrate
    runners,             \* the callers of migrate
    directory,           \* the files of the migrations directory
    ledger,              \* the committed documents of the migrations collection
    db,                  \* the committed writes of migration scripts
    run,                 \* per caller: the state of its run of migrate
    budget,              \* runs of migrate still to start
    next_id              \* identifies the next run

svars == <<current_version, target_version, available_versions, called, result>>
fvars == <<wanted, candidates, looked, found>>
mvars == <<runners, directory, ledger, db, run, budget, next_id>>
vars == <<svars, fvars, mvars>>

Runners == {1, 2}

NoRetry == [active |-> FALSE, target |-> V000, strategy |-> NoStrategy]

\* what a caller remembers of its previous call: whether it returned
\* without error, and its target
NoPrev == [done |-> FALSE, target |-> V000]

\* a caller that is not inside migrate
IdleRun(retry, prev) ==
    [pc |-> "idle", tx |-> "none", opened |-> 0, target |-> V000,
     scripts |-> <<>>, snap |-> 0, current |-> V000, strategy |-> NoStrategy,
     idx |-> 0, file |-> <<>>, tx_effects |-> <<>>, tx_ledger |-> <<>>,
     executed |-> <<>>, error |-> "", id |-> 0, retry |-> retry, prev |-> prev]

StrategyIdle ==
    /\ current_version = V000
    /\ target_version = V000
    /\ available_versions = <<>>
    /\ called = FALSE
    /\ result = NoStrategy

FindIdle ==
    /\ wanted = V000
    /\ candidates = <<>>
    /\ looked = FALSE
    /\ found = [found |-> FALSE, error |-> "", item |-> <<>>]

MigrateIdle ==
    /\ runners = {}
    /\ directory = <<>>
    /\ ledger = <<>>
    /\ db = <<>>
    /\ run = [r \in Runners |-> IdleRun(NoRetry, NoPrev)]
    /\ budget = 0
    /\ next_id = 1

(***************************************************************************)
(* Specification of the pure function _calculate_migration_strategy: the   *)
(* inputs are drawn from Versions and from the lists over Versions of      *)
(* length at most MaxAvail, and the one action applies the function.       *)
(***************************************************************************)
StrategyInit ==
    /\ current_version \in Versions
    /\ target_version \in Versions
    /\ available_versions \in SeqsUpTo(Versions, MaxAvail)
    /\ called = FALSE
    /\ result = NoStrategy
    /\ FindIdle
    /\ MigrateIdle

Calculate ==
    /\ ~called
    /\ called' = TRUE
    /\ result' = _calculate_migration_strategy(
                     current_version, target_version, available_versions)
    /\ UNCHANGED <<current_version, target_version, available_versions>>
    /\ UNCHANGED <<fvars, mvars>>

StrategyNext == Calculate

StrategySpec == StrategyInit /\ [][StrategyNext]_vars

(***************************************************************************)
(* Specification of the pure function _find, as migrate calls it: the      *)
(* predicate matches the wanted version against a list of versioned paths. *)
(***************************************************************************)
FindInit ==
    /\ wanted \in Versions
    /\ candidates \in
          {[i \in 1..Len(s) |-> _to_versioned(File(s[i]))] :
              s \in SeqsUpTo(Versions, MaxAvail)}
    /\ looked = FALSE
    /\ found = [found |-> FALSE, error |-> "", item |-> <<>>]
    /\ StrategyIdle
    /\ MigrateIdle

Find ==
    /\ ~looked
    /\ looked' = TRUE
    /\ found' = _find(wanted, candidates)
    /\ UNCHANGED <<wanted, candidates>>
    /\ UNCHANGED <<svars, mvars>>

FindNext == Find

FindSpec == FindInit /\ [][FindNext]_vars

(***************************************************************************)
(* migrate.  Each caller runs migrate step by step; a step is the code     *)
(* between two awaits.  The store gives every transaction the snapshot of  *)
(* the committed documents taken at its first read, keeps a transaction's  *)
(* writes to itself until it commits, and lets inserts of new documents    *)
(* commit whatever other transactions inserted meanwhile.                  *)
(***************************************************************************)
\* the exception leaves both `async with` blocks: the transaction is
\* aborted and the error reaches the caller
Raise(r, err) ==
    /\ run' = [run EXCEPT ![r] =
                  [@ EXCEPT !.pc = "failed", !.tx = TxOnExit(TRUE), !.error = err,
                            !.tx_effects = <<>>, !.tx_ledger = <<>>]]
    /\ ledger' = KeptOnAbort(ledger, run[r].tx_ledger)
    /\ db' = KeptOnAbort(db, run[r].tx_effects)

\* where the for loop of lines 347-358 stands after i - 1 scripts
LoopPc(strategy, i) == IF i > Len(strategy.versions) THEN "insert" ELSE "scripts"

\* a faulty variant of AfterStrategy: no return on None
AfterStrategyNoReturn(strategy) == LoopPc(strategy, 1)

\* lines 327-337: on None the function returns, which ends the block and
\* commits; otherwise the loop over the selected versions starts
AfterStrategy(strategy) ==
    IF strategy = NoStrategy THEN "commit" ELSE LoopPc(strategy, 1)

\* lines 301-307: the project version and the script files are read before
\* any session is started; an error here ends the run
Preflight(r) ==
    /\ r \in runners
    /\ run[r].pc = "idle"
    /\ budget > 0
    /\ budget' = budget - 1
    /\ next_id' = next_id + 1
    /\ \E project \in ProjectStates :
          LET pv == ReadProjectVersion(project)
              lf == _list_migration_script_files(directory)
          IN  run' = [run EXCEPT ![r] =
                  IF ~pv.ok
                  THEN [@ EXCEPT !.pc = "failed", !.error = pv.error, !.id = next_id]
                  ELSE IF ~lf.ok
                  THEN [@ EXCEPT !.pc = "failed", !.error = lf.error, !.id = next_id]
                  ELSE [@ EXCEPT !.pc = "start", !.target = pv.version,
                                 !.scripts = lf.files, !.id = next_id]]
    /\ UNCHANGED <<runners, directory, ledger, db, svars, fvars>>

\* lines 309-310: client.start_session() and session.start_transaction()
StartTransaction(r) ==
    /\ run[r].pc = "start"
    /\ run' = [run EXCEPT ![r] =
                  [@ EXCEPT !.pc = "find_last", !.tx = "open", !.opened = @ + 1]]
    /\ UNCHANGED <<runners, directory, ledger, db, budget, next_id, svars, fvars>>

\* lines 314-345: the last migration is read, the strategy calculated; on
\* None the function returns, which commits the transaction
FindLastMigration(r) ==
    /\ run[r].pc = "find_last"
    /\ \E last \in (IF ledger = <<>> THEN {{}}
                    ELSE {{d} : d \in _find_last_migration(ledger)}) :
          LET current == CurrentDatabaseVersion(last)
              strategy == _calculate_migration_strategy(
                              current, run[r].target, FstOfEach(run[r].scripts))
          IN  IF strategy.direction = "RuntimeError"
              THEN Raise(r, "RuntimeError")
              ELSE /\ run' = [run EXCEPT ![r] =
                         [@ EXCEPT !.snap = Len(ledger), !.current = current,
                                   !.strategy = strategy, !.idx = 1,
                                   !.pc = AfterStrategy(strategy)]]
                   /\ UNCHANGED <<ledger, db>>
    /\ UNCHANGED <<runners, directory, budget, next_id, svars, fvars>>

\* line 314: the read of the ledger fails
FindLastFails(r) ==
    /\ run[r].pc = "find_last"
    /\ Raise(r, "StoreError")
    /\ UNCHANGED <<runners, directory, budget, next_id, svars, fvars>>

\* lines 347-351 and 294-295: the file of the next version is looked up
\* and loaded, and its __apply__ or __revert__ is called
StartScript(r) ==
    /\ run[r].pc = "scripts"
    /\ LET f == _find(run[r].strategy.versions[run[r].idx], run[r].scripts)
       IN  IF ~f.found
           THEN Raise(r, f.error)
           ELSE /\ run' = [run EXCEPT ![r] =
                      [@ EXCEPT !.pc = "running", !.file = <<f.item[1].file>>]]
                /\ UNCHANGED <<ledger, db>>
    /\ UNCHANGED <<runners, directory, budget, next_id, svars, fvars>>

\* lines 294-295: the file cannot be loaded as a module, or the module has
\* no function for the direction
LoadFails(r) ==
    /\ run[r].pc = "scripts"
    /\ Raise(r, "LoadError")
    /\ UNCHANGED <<runners, directory, budget, next_id, svars, fvars>>

\* line 297: the script's function returns; what it wrote through the
\* session is part of the transaction
FinishScript(r) ==
    /\ run[r].pc = "running"
    /\ run' = [run EXCEPT ![r] =
                  [@ EXCEPT !.tx_effects = Append(@,
                                [file |-> run[r].file[1],
                                 direction |-> run[r].strategy.direction,
                                 by |-> run[r].id]),
                            !.executed = Append(@, run[r].strategy.versions[run[r].idx]),
                            !.file = <<>>,
                            !.idx = @ + 1,
                            !.pc = LoopPc(run[r].strategy, run[r].idx + 1)]]
    /\ UNCHANGED <<runners, directory, ledger, db, budget, next_id, svars, fvars>>

\* a faulty variant of ScriptFails: the error of the script is swallowed
\* and the loop goes on to the next version
ScriptFailsSwallowed(r) ==
    /\ run[r].pc = "running"
    /\ run' = [run EXCEPT ![r] =
                  [@ EXCEPT !.file = <<>>,
                            !.idx = @ + 1,
                            !.pc = LoopPc(run[r].strategy, run[r].idx + 1)]]
    /\ UNCHANGED <<runners, directory, ledger, db, budget, next_id, svars, fvars>>

\* line 297: the script's function raises (its own error, or the store's
\* when a write conflicts with another transaction)
ScriptFails(r) ==
    /\ run[r].pc = "running"
    /\ Raise(r, "ScriptError")
    /\ UNCHANGED <<runners, directory, budget, next_id, svars, fvars>>

\* the datetimes of the documents written so far, committed or not; no
\* two calls of datetime.now() return the same reading, and a later call
\* may return an earlier one (the wall clock of another host, or a clock
\* set back)
UsedDatetimes ==
    {ledger[i].application_datetime : i \in 1..Len(ledger)}
        \cup UNION {{run[q].tx_ledger[i].application_datetime :
                        i \in 1..Len(run[q].tx_ledger)} : q \in Runners}

\* lines 360-364: _insert_migration_of(session, collection, project version)
InsertMigration(r) ==
    /\ run[r].pc = "insert"
    /\ \E now \in (1..MaxTime) \ UsedDatetimes :
          run' = [run EXCEPT ![r] =
                     [@ EXCEPT !.tx_ledger = Append(@,
                                   MigrationDocument(RecordedVersion(run[r]), now,
                                                     run[r].id)),
                               !.pc = "commit"]]
    /\ UNCHANGED <<runners, directory, ledger, db, budget, next_id, svars, fvars>>

\* line 360: the insert fails
InsertFails(r) ==
    /\ run[r].pc = "insert"
    /\ Raise(r, "StoreError")
    /\ UNCHANGED <<runners, directory, budget, next_id, svars, fvars>>

\* line 310: the block ends normally (the return of line 335, or the end
\* of the function) and the transaction commits
Commit(r) ==
    /\ run[r].pc = "commit"
    /\ ledger' = KeptOnCommit(ledger, run[r].tx_ledger)
    /\ db' = KeptOnCommit(db, run[r].tx_effects)
    /\ run' = [run EXCEPT ![r] = [@ EXCEPT !.pc = "done", !.tx = TxOnExit(FALSE)]]
    /\ UNCHANGED <<runners, directory, budget, next_id, svars, fvars>>

\* line 310: the store refuses the commit; the transaction is aborted by
\* the store and the error reaches the caller
CommitFails(r) ==
    /\ run[r].pc = "commit"
    /\ run' = [run EXCEPT ![r] =
                  [@ EXCEPT !.pc = "failed", !.tx = "aborted", !.error = "StoreError",
                            !.tx_effects = <<>>, !.tx_ledger = <<>>]]
    /\ ledger' = KeptOnAbort(ledger, run[r].tx_ledger)
    /\ db' = KeptOnAbort(db, run[r].tx_effects)
    /\ UNCHANGED <<runners, directory, budget, next_id, svars, fvars>>

\* migrate has returned or raised; the caller may call it again
Return(r) ==
    /\ run[r].pc \in {"done", "failed"}
    /\ run' = [run EXCEPT ![r] =
                  IdleRun(IF run[r].pc = "failed"
                                 /\ run[r].error \in {"ScriptError", "LoadError"}
                          THEN [active |-> TRUE, target |-> run[r].target,
                                strategy |-> run[r].strategy]
                          ELSE NoRetry,
                          IF run[r].pc = "done"
                          THEN [done |-> TRUE, target |-> run[r].target]
                          ELSE NoPrev)]
    /\ UNCHANGED <<runners, directory, ledger, db, budget, next_id, svars, fvars>>

Next ==
    \E r \in Runners :
        \/ Preflight(r)
        \/ StartTransaction(r)
        \/ FindLastMigration(r)
        \/ FindLastFails(r)
        \/ StartScript(r)
        \/ LoadFails(r)
        \/ FinishScript(r)
        \/ ScriptFails(r)
        \/ InsertMigration(r)
        \/ InsertFails(r)
        \/ Commit(r)
        \/ CommitFails(r)
        \/ Return(r)

\* one caller, MaxRuns runs one after the other
Init ==
    /\ runners = {1}
    /\ directory \in Directories
    /\ ledger = <<>>
    /\ db = <<>>
    /\ run = [r \in Runners |-> IdleRun(NoRetry, NoPrev)]
    /\ budget = MaxRuns
    /\ next_id = 1
    /\ StrategyIdle
    /\ FindIdle

Spec == Init /\ [][Next]_vars

\* two callers, ConcRuns runs that may overlap
ConcInit ==
    /\ runners = {1, 2}
    /\ directory \in Directories
    /\ ledger = <<>>
    /\ db = <<>>
    /\ run = [r \in Runners |-> IdleRun(NoRetry, NoPrev)]
    /\ budget = ConcRuns
    /\ next_id = 1
    /\ StrategyIdle
    /\ FindIdle

ConcSpec == ConcInit /\ [][Next]_vars

(***************************************************************************)
(* Properties of _calculate_migration_strategy.                            *)
(***************************************************************************)
\* number of positions of the list s holding exactly v
Count(s, v) == Cardinality({i \in 1..Len(s) : s[i] = v})

\* the list s is in ascending version order
Ascending(s) == \A i, j \in 1..Len(s) : i < j => compare(s[i], s[j]) <= 0

\* the list s is in descending version order
Descending(s) == \A i, j \in 1..Len(s) : i < j => compare(s[i], s[j]) >= 0

\* a and b agree on everything but the build tag
SamePrecedence(a, b) ==
    /\ a.major = b.major /\ a.minor = b.minor /\ a.patch = b.patch
    /\ a.prerelease = b.prerelease

\* C1: when current < target the result is FORWARD with exactly the
\* available versions v, current < v <= target, each as often as it is
\* available, in ascending order (so an empty list gives (FORWARD, <<>>)).
C1_ForwardSelection ==
    (called /\ compare(current_version, target_version) = -1) =>
        /\ result.direction = "FORWARD"
        /\ \A v \in Versions :
              Count(result.versions, v) =
                  IF compare(current_version, v) = -1 /\ compare(v, target_version) <= 0
                  THEN Count(available_versions, v) ELSE 0
        /\ Ascending(result.versions)
        /\ (available_versions = <<>> => result.versions = <<>>)

\* a forward call that selects at least two versions and drops at least one
C1_Witness ==
    /\ called
    /\ compare(current_version, target_version) = -1
    /\ Len(result.versions) >= 2
    /\ Len(result.versions) < Len(available_versions)
    /\ compare(result.versions[1], result.versions[2]) = -1

\* C2: when current > target the result is BACKWARD with exactly the
\* available versions v, target < v <= current, in descending order; no
\* version equal to target is in the list.
C2_BackwardSelection ==
    (called /\ compare(current_version, target_version) = 1) =>
        /\ result.direction = "BACKWARD"
        /\ \A v \in Versions :
              Count(result.versions, v) =
                  IF compare(target_version, v) = -1 /\ compare(v, current_version) <= 0
                  THEN Count(available_versions, v) ELSE 0
        /\ Descending(result.versions)
        /\ \A i \in 1..Len(result.versions) :
              compare(result.versions[i], target_version) # 0

\* a backward call that selects two versions in strictly descending order
\* and leaves out an available version equal to target
C2_Witness ==
    /\ called
    /\ compare(current_version, target_version) = 1
    /\ Len(result.versions) >= 2
    /\ compare(result.versions[1], result.versions[2]) = 1
    /\ \E i \in 1..Len(available_versions) :
          compare(available_versions[i], target_version) = 0

\* C3 as stated: a version equal to current is never selected, forward or
\* backward; a version equal to target is selected forward and never
\* backward.
C3_AsStated ==
    (called /\ result.direction \in {"FORWARD", "BACKWARD"}) =>
        /\ \A i \in 1..Len(result.versions) :
              compare(result.versions[i], current_version) # 0
        /\ \A i \in 1..Len(available_versions) :
              compare(available_versions[i], target_version) = 0 =>
                  IF result.direction = "FORWARD"
                  THEN Count(result.versions, available_versions[i]) > 0
                  ELSE Count(result.versions, available_versions[i]) = 0

\* C3 (amended): forward, a version equal to current is never selected and
\* every available version equal to target is; backward, a version equal to
\* target is never selected and every available version equal to current
\* is.
C3_Boundaries ==
    /\ (called /\ result.direction = "FORWARD") =>
          /\ \A i \in 1..Len(result.versions) :
                compare(result.versions[i], current_version) # 0
          /\ \A i \in 1..Len(available_versions) :
                compare(available_versions[i], target_version) = 0 =>
                    Count(result.versions, available_versions[i]) > 0
    /\ (called /\ result.direction = "BACKWARD") =>
          /\ \A i \in 1..Len(result.versions) :
                compare(result.versions[i], target_version) # 0
          /\ \A i \in 1..Len(available_versions) :
                compare(available_versions[i], current_version) = 0 =>
                    Count(result.versions, available_versions[i]) > 0

\* a backward call with scripts at current and at target available: the
\* one at current is selected, the one at target is not
C3_Witness ==
    /\ called
    /\ result.direction = "BACKWARD"
    /\ \E i \in 1..Len(available_versions) :
          /\ compare(available_versions[i], current_version) = 0
          /\ Count(result.versions, available_versions[i]) > 0
    /\ \E i \in 1..Len(available_versions) :
          /\ compare(available_versions[i], target_version) = 0
          /\ Count(result.versions, available_versions[i]) = 0

\* C4: whenever current and target have the same precedence (the same
\* major, minor, patch and prerelease) the result is None, whatever is
\* available.
C4_EqualIsNoOp ==
    (called /\ SamePrecedence(current_version, target_version)) =>
        result = NoStrategy

\* a call with current and target equal up to the build tag and a script
\* of that very version available
C4_Witness ==
    /\ called
    /\ SamePrecedence(current_version, target_version)
    /\ current_version # target_version
    /\ \E i \in 1..Len(available_versions) :
          available_versions[i] = target_version
    /\ result = NoStrategy

(***************************************************************************)
(* Properties of migrate.                                                  *)
(***************************************************************************)
\* the positions of the committed ledger documents the run `id` inserted
LedgerOf(id) == {i \in 1..Len(ledger) : ledger[i].by = id}

\* the positions of the committed script writes the run `id` made
EffectsOf(id) == {i \in 1..Len(db) : db[i].by = id}

\* the run of caller r has calculated a strategy that is not None
HasStrategy(r) ==
    /\ run[r].pc \in {"scripts", "running", "insert", "commit", "done", "failed"}
    /\ run[r].strategy # NoStrategy

\* C5: when a selected script fails, to load or to run, the transaction is
\* aborted, the error reaches the caller, the committed ledger holds no
\* document of the run and the committed database no write of its
\* scripts; and a run that follows with the same target and scripts
\* calculates the same strategy.
C5_Atomicity ==
    \A r \in Runners :
        /\ (run[r].pc = "failed" /\ run[r].error \in {"ScriptError", "LoadError"}) =>
              /\ run[r].tx = "aborted"
              /\ LedgerOf(run[r].id) = {}
              /\ EffectsOf(run[r].id) = {}
              /\ Len(ledger) = run[r].snap
        /\ (run[r].retry.active /\ HasStrategy(r)
                /\ run[r].target = run[r].retry.target) =>
              run[r].strategy = run[r].retry.strategy

\* the third of five selected scripts fails, in a run that repeats a run
\* that failed the same way
C5_Witness ==
    /\ run[1].pc = "failed"
    /\ run[1].error = "ScriptError"
    /\ Len(run[1].strategy.versions) = 5
    /\ Len(run[1].executed) = 2
    /\ run[1].retry.active
    /\ run[1].retry.target = run[1].target

\* C6: a run whose strategy is not None inserts its ledger document only
\* after every selected script has returned, the document carries the
\* target version, and a run that ends without error has committed
\* exactly one document, also when no version was selected.
C6_AppendAfterScripts ==
    \A r \in Runners :
        /\ Len(run[r].tx_ledger) <= 1
        /\ run[r].tx_ledger # <<>> =>
              /\ run[r].strategy # NoStrategy
              /\ run[r].executed = run[r].strategy.versions
              /\ validate_version(run[r].tx_ledger[1].version) = run[r].target
        /\ run[r].pc # "done" => LedgerOf(run[r].id) = {}
        /\ (run[r].pc = "done" /\ run[r].strategy # NoStrategy) =>
              /\ Cardinality(LedgerOf(run[r].id)) = 1
              /\ run[r].executed = run[r].strategy.versions
              /\ \A i \in LedgerOf(run[r].id) :
                    validate_version(ledger[i].version) = run[r].target

\* a run that ran two scripts, neither at the target version, has ended
\* and committed its document
C6_Witness ==
    /\ run[1].pc = "done"
    /\ Len(run[1].executed) = 2
    /\ \A i \in 1..2 : compare(run[1].executed[i], run[1].target) # 0
    /\ Cardinality(LedgerOf(run[1].id)) = 1

\* the runs of callers p and q applied a common version in one direction
AppliedSame(p, q) ==
    /\ run[p].strategy.direction = run[q].strategy.direction
    /\ \E i \in 1..Len(run[p].executed), j \in 1..Len(run[q].executed) :
          compare(run[p].executed[i], run[q].executed[j]) = 0

\* the run of caller q saw the ledger document the run of caller p committed
SawLedgerOf(q, p) == \E i \in LedgerOf(run[p].id) : i <= run[q].snap

\* C7: two runs that both commit having applied the same version are
\* serialized, the later one having seen the ledger document of the
\* earlier.
C7_AsStated ==
    \A p, q \in Runners :
        (/\ p # q
         /\ run[p].pc = "done" /\ run[p].tx = "committed"
         /\ run[q].pc = "done" /\ run[q].tx = "committed"
         /\ AppliedSame(p, q)) =>
            SawLedgerOf(q, p) \/ SawLedgerOf(p, q)

HasDuplicateVersions(dir) ==
    \E i, j \in 1..Len(dir) :
        i # j /\ dir[i].valid /\ dir[j].valid /\ compare(dir[i].stem, dir[j].stem) = 0

\* a file of the directory is not named as a version
HasMalformedName(dir) == \E i \in 1..Len(dir) : ~dir[i].valid

\* C9: with a malformed file name or duplicate script versions in the
\* migrations directory no run opens a transaction, and a run that failed
\* to read the project version has opened none.
C9_AsStated ==
    \A r \in Runners :
        /\ (HasMalformedName(directory) \/ HasDuplicateVersions(directory)) =>
              (run[r].opened = 0 /\ run[r].tx = "none" /\ db = <<>> /\ ledger = <<>>)
        /\ run[r].error \in {"ProjectInspectionError", "ValueError"} =>
              (run[r].opened = 0 /\ run[r].tx = "none")

\* C10 as stated: every run that has ended opened exactly one transaction,
\* committed when it ended without error and aborted otherwise.
C10_AsStated ==
    \A r \in Runners :
        run[r].pc \in {"done", "failed"} =>
            /\ run[r].opened = 1
            /\ (run[r].pc = "done" => run[r].tx = "committed")
            /\ run[r].pc = "failed" => run[r].tx = "aborted"

\* C10 (amended): a run opens at most one transaction, none when it fails
\* before the session starts and exactly one otherwise; the transaction is
\* open only while the run is inside the block, committed when the run
\* ends without error and aborted when it ends with one.
C10_TransactionReleased ==
    \A r \in Runners :
        /\ run[r].opened <= 1
        /\ run[r].tx = "open" <=>
              run[r].pc \in {"find_last", "scripts", "running", "insert", "commit"}
        /\ run[r].pc = "done" => (run[r].opened = 1 /\ run[r].tx = "committed")
        /\ run[r].pc = "failed" =>
              IF run[r].error \in {"ProjectInspectionError", "ValueError"}
              THEN run[r].opened = 0 /\ run[r].tx = "none"
              ELSE run[r].opened = 1 /\ run[r].tx = "aborted"

\* a run has ended with the error of a script, after another script of
\* the run had returned
C10_Witness ==
    /\ run[1].pc = "failed"
    /\ run[1].error = "ScriptError"
    /\ run[1].executed # <<>>
    /\ run[1].opened = 1
    /\ run[1].tx = "aborted"

(***************************************************************************)
(* Further properties of _calculate_migration_strategy.                    *)
(***************************************************************************)
\* C16: every call ends in exactly one of None, FORWARD and BACKWARD, and
\* never in the branch that raises RuntimeError: None when current and
\* target have the same precedence, FORWARD or BACKWARD otherwise.
C16_ThreeOutcomes ==
    called =>
        /\ result.direction \in {"None", "FORWARD", "BACKWARD"}
        /\ result.direction = "None" <=> SamePrecedence(current_version, target_version)

\* a call whose versions differ in the minor number one way and in the
\* patch number the other way
C16_Witness ==
    /\ called
    /\ current_version.minor < target_version.minor
    /\ current_version.patch > target_version.patch
    /\ result.direction = "FORWARD"

\* the list s back to front
Reverse(s) == [i \in 1..Len(s) |-> s[Len(s) + 1 - i]]

\* the lists s and t are equal as Python compares lists of versions
SameVersions(s, t) ==
    /\ Len(s) = Len(t)
    /\ \A i \in 1..Len(s) : compare(s[i], t[i]) = 0

\* no two entries of the list s compare equal
DistinctVersions(s) ==
    \A i, j \in 1..Len(s) : i # j => compare(s[i], s[j]) # 0

\* C18: for current < target the list selected for the backward direction
\* from target to current is the reverse of the list selected for the
\* forward direction from current to target: the same versions position
\* by position, and the very same list when no two available versions
\* compare equal.
C18_Symmetry ==
    (called /\ compare(current_version, target_version) = -1) =>
        LET back == _calculate_migration_strategy(
                        target_version, current_version, available_versions)
        IN  /\ result.direction = "FORWARD"
            /\ back.direction = "BACKWARD"
            /\ SameVersions(back.versions, Reverse(result.versions))
            /\ DistinctVersions(available_versions) =>
                  back.versions = Reverse(result.versions)

\* a forward call that selects three versions of an unordered list
C18_Witness ==
    /\ called
    /\ compare(current_version, target_version) = -1
    /\ Len(result.versions) = 3
    /\ DistinctVersions(available_versions)
    /\ result.versions # available_versions

\* C19: for current < b < target the forward list from current to target
\* is the forward list from current to b followed by the forward list
\* from b to target.
C19_Composition ==
    (called /\ compare(current_version, target_version) = -1) =>
        \A b \in Versions :
            (compare(current_version, b) = -1 /\ compare(b, target_version) = -1) =>
                result.versions =
                    _calculate_migration_strategy(
                        current_version, b, available_versions).versions
                    \o _calculate_migration_strategy(
                        b, target_version, available_versions).versions

\* a forward call over some b, with a script at b and scripts on either
\* side of it
C19_Witness ==
    /\ called
    /\ compare(current_version, target_version) = -1
    /\ \E b \in Versions :
          /\ compare(current_version, b) = -1 /\ compare(b, target_version) = -1
          /\ \E i \in 1..Len(available_versions) : available_versions[i] = b
          /\ Len(_calculate_migration_strategy(
                     current_version, b, available_versions).versions) >= 2
          /\ _calculate_migration_strategy(
                 b, target_version, available_versions).versions # <<>>

(***************************************************************************)
(* Further properties of migrate.                                          *)
(***************************************************************************)
\* the run of caller r has read the ledger and calculated its strategy,
\* and has not failed
PastStrategy(r) == run[r].pc \in {"scripts", "running", "insert", "commit", "done"}

\* C11: once a run has appended its document for version V and committed,
\* reading the last migration returns a document whose version is V.
C11_AsStated ==
    \A r \in Runners :
        (run[r].pc = "done" /\ run[r].strategy # NoStrategy) =>
            \A d \in _find_last_migration(ledger) :
                compare(validate_version(d.version), run[r].target) = 0

\* C17: a call that follows a call of the same caller that returned
\* without error, with the same target, reads the target as the current
\* version, calculates None, runs no script and inserts no document.
C17_AsStated ==
    \A r \in Runners :
        (run[r].prev.done /\ PastStrategy(r)
            /\ run[r].target = run[r].prev.target) =>
            /\ compare(run[r].current, run[r].target) = 0
            /\ run[r].strategy = NoStrategy
            /\ run[r].executed = <<>>
            /\ run[r].tx_ledger = <<>>
            /\ LedgerOf(run[r].id) = {}

\* C12: a run whose strategy is None runs no script and writes nothing;
\* when it has returned, its transaction is committed, no error is raised,
\* and the committed ledger and database are as the run read them.
C12_NoOpFrame ==
    \A r \in Runners :
        (run[r].pc \in {"commit", "done"} /\ run[r].strategy = NoStrategy) =>
            /\ compare(run[r].current, run[r].target) = 0
            /\ run[r].executed = <<>>
            /\ run[r].tx_effects = <<>>
            /\ run[r].tx_ledger = <<>>
            /\ run[r].error = ""
            /\ LedgerOf(run[r].id) = {}
            /\ EffectsOf(run[r].id) = {}
            /\ Len(ledger) = run[r].snap
            /\ (run[r].pc = "done" => run[r].tx = "committed")

\* a run against a ledger that holds a document has calculated None for a
\* target that differs from the recorded version in the build tag, and
\* has returned
C12_Witness ==
    /\ run[1].pc = "done"
    /\ run[1].strategy = NoStrategy
    /\ run[1].tx = "committed"
    /\ ledger # <<>>
    /\ run[1].current # run[1].target


\* a run that calculated None, or that ended with an error, has no
\* document in the committed ledger
WroteNothing(r) ==
    (run[r].pc = "failed" \/ (PastStrategy(r) /\ run[r].strategy = NoStrategy)) =>
        LedgerOf(run[r].id) = {}

\* C14: every step leaves the documents of the committed ledger as they
\* were and in place, and adds at most one after them; no run has more
\* than one document in it, and a run that calculated None or that failed
\* has none.
C14_AppendOnly ==
    /\ [][/\ Len(ledger') \in {Len(ledger), Len(ledger) + 1}
          /\ SubSeq(ledger', 1, Len(ledger)) = ledger]_vars
    /\ [](\A i, j \in 1..Len(ledger) : ledger[i].by = ledger[j].by => i = j)
    /\ [](\A r \in Runners : WroteNothing(r))

\* two runs have each appended a document, and a third, which got as far
\* as its commit, ended with the store's error and appended none
C14_Witness ==
    /\ Len(ledger) = 2
    /\ ledger[1].by # ledger[2].by
    /\ run[1].pc = "failed"
    /\ run[1].error = "StoreError"
    /\ run[1].strategy # NoStrategy
    /\ LedgerOf(run[1].id) = {}


\* the file that line 349 finds for the i-th version of the run's strategy
FileAt(r, i) == _find(run[r].strategy.versions[i], run[r].scripts).item[1].file

\* the scripts of run r that have completed are the first idx - 1 of the
\* calculated list, in its order, and the only one in progress (or that
\* failed) is the one at idx
InListOrder(r) ==
    /\ run[r].idx = Len(run[r].executed) + 1
    /\ run[r].idx <= Len(run[r].strategy.versions) + 1
    /\ run[r].executed = SubSeq(run[r].strategy.versions, 1, run[r].idx - 1)
    /\ Len(run[r].tx_effects) \in {0, Len(run[r].executed)}
    /\ \A i \in 1..Len(run[r].tx_effects) :
          /\ run[r].tx_effects[i].file = FileAt(r, i)
          /\ run[r].tx_effects[i].direction = run[r].strategy.direction
    /\ run[r].strategy.direction = "FORWARD" => Ascending(run[r].strategy.versions)
    /\ run[r].strategy.direction = "BACKWARD" => Descending(run[r].strategy.versions)
    /\ Len(run[r].file) <= 1
    /\ run[r].pc = "running" => run[r].file # <<>>
    /\ run[r].file # <<>> =>
          /\ run[r].pc \in {"running", "failed"}
          /\ run[r].file = <<FileAt(r, run[r].idx)>>

\* C13: in every run the completed scripts are a prefix of the calculated
\* list (ascending when forward, descending when backward) and at most the
\* next one is in progress; a script starts only from between two scripts,
\* completes only by handing over to the next position, and once a run
\* has failed no script of it starts or completes.
C13_OneAtATimeInOrder ==
    /\ [](\A r \in Runners : HasStrategy(r) => InListOrder(r))
    /\ [][\A r \in Runners :
             /\ (run'[r].pc = "running" /\ run[r].pc # "running") =>
                    (run[r].pc = "scripts" /\ run'[r].executed = run[r].executed)
             /\ (HasStrategy(r) /\ run'[r].executed # run[r].executed
                     /\ run'[r].pc # "idle") =>
                    (run[r].pc = "running"
                     /\ run'[r].executed =
                            Append(run[r].executed,
                                   run[r].strategy.versions[run[r].idx]))
             /\ run[r].pc = "failed" =>
                    (run'[r] = run[r] \/ run'[r].pc = "idle")]_vars

\* a backward run of at least three scripts has completed two of them and
\* failed in the third
C13_Witness ==
    /\ run[1].pc = "failed"
    /\ run[1].error = "ScriptError"
    /\ run[1].strategy.direction = "BACKWARD"
    /\ Len(run[1].strategy.versions) >= 3
    /\ Len(run[1].executed) = 2
    /\ compare(run[1].executed[1], run[1].executed[2]) = 1


\* the files of the listing of run r whose version is above 0.0.0 and at
\* most the run's target
FilesUpToTarget(r) ==
    {run[r].scripts[i].file :
        i \in {j \in 1..Len(run[r].scripts) :
                  /\ compare(run[r].scripts[j].version, _INITIAL_DATABASE_VERSION) = 1
                  /\ compare(run[r].scripts[j].version, run[r].target) <= 0}}

\* C15: a run that read an empty ledger and returned took 0.0.0 as the
\* current version; for a target equal to 0.0.0 it did nothing and the
\* ledger is still empty; for a target above 0.0.0 it ran forward each
\* script file with a version above 0.0.0 and at most the target, once
\* each, and its document in the ledger records the target.
C15_AsStated ==
    \A r \in Runners :
        (run[r].pc = "done" /\ run[r].snap = 0) =>
            /\ run[r].current = _INITIAL_DATABASE_VERSION
            /\ compare(run[r].target, _INITIAL_DATABASE_VERSION) = 0 =>
                  /\ run[r].strategy = NoStrategy
                  /\ run[r].tx_effects = <<>>
                  /\ ledger = <<>>
            /\ compare(run[r].target, _INITIAL_DATABASE_VERSION) = 1 =>
                  /\ run[r].strategy.direction = "FORWARD"
                  /\ {run[r].tx_effects[i].file : i \in 1..Len(run[r].tx_effects)}
                        = FilesUpToTarget(r)
                  /\ Len(run[r].tx_effects) = Cardinality(FilesUpToTarget(r))
                  /\ \A i \in 1..Len(run[r].tx_effects) :
                        run[r].tx_effects[i].direction = "FORWARD"
                  /\ Len(ledger) = 1
                  /\ ledger[1].by = run[r].id
                  /\ validate_version(ledger[1].version) = run[r].target

=============================================================================
